---- MODULE Spec2Model ----
(***************************************************************************)
(* Model of scripts/extract_forex.py: one invocation of main(), i.e. one   *)
(* run of run_daily_extraction: resolve the bucket, fetch one day with     *)
(* fetch_single_date_with_retry, normalise with validate_and_prepare_data, *)
(* upload with save_to_gcs_parquet, exit with 0 or 1.                      *)
(*                                                                         *)
(* The environment (command line, environment variables, config.ini, the   *)
(* answers of the market-data provider) is chosen in Init.  The provider   *)
(* answers its i-th request with the error script[i] while i <=            *)
(* Len(script) and with a table afterwards.  max_retries is the parameter  *)
(* of fetch_single_date_with_retry; the model lets it range over           *)
(* -1..MaxRetries.  print() is taken not to raise.                         *)
(*                                                                         *)
(* Spec is the whole invocation.  SpecNormalize starts where               *)
(* run_daily_extraction holds a fetched, non-empty frame and applies       *)
(* validate_and_prepare_data to it, for every frame of up to MaxRows rows. *)
(***************************************************************************)
EXTENDS Integers, Sequences, FiniteSets, TLC

VARIABLES
    pc,             \* position of the invocation
    bucket_arg,     \* --bucket (None when not given)
    env_bucket,     \* GCS_BUCKET_NAME in the environment
    env_key,        \* TWELVE_DATA_API_KEY in the environment
    config_key,     \* [DEFAULT] api_key of config.ini (None: no file)
    symbol,         \* --symbol
    date,           \* --date (None when not given)
    max_retries,    \* parameter of fetch_single_date_with_retry
    script,         \* errors the provider answers with, in order
    bucket_name,    \* run_daily_extraction: resolved bucket
    attempt,        \* fetch_single_date_with_retry: attempt
    delay_seconds,  \* fetch_single_date_with_retry: delay_seconds
    fetchCalls,     \* number of calls of fetch_forex_data
    requests,       \* answers of the provider, one per request sent
    fetched,        \* what the last call of fetch_forex_data gave its caller
    sleeps,         \* arguments of time.sleep, in order
    raw,            \* result of fetch_single_date_with_retry
    df,             \* run_daily_extraction: df
    trace,          \* pipeline stages invoked, in order
    blobs,          \* gcs paths written by upload_from_filename, in order
    temp_file,      \* whether the local temporary parquet file exists
    gcs_path,       \* result of save_to_gcs_parquet
    failed_at,      \* statement of save_to_gcs_parquet that raised
    again,          \* validate_and_prepare_data applied to its own result
    success,        \* result of run_daily_extraction
    exit_code       \* argument of sys.exit

vars == <<pc, bucket_arg, env_bucket, env_key, config_key, symbol, date,
          max_retries,
          script, bucket_name, attempt, delay_seconds, fetchCalls, requests,
          fetched, sleeps, raw, df, trace, blobs, temp_file, gcs_path,
          failed_at, again, success, exit_code>>

inputs == <<bucket_arg, env_bucket, env_key, config_key, symbol, date,
            max_retries, script>>

(***************************************************************************)
(* Bounds                                                                  *)
(***************************************************************************)
MaxRetries == 2     \* max_retries ranges over -1..MaxRetries
MaxRows == 3        \* rows of a table given to the normaliser alone
MaxFetched == 1     \* rows of a table answered by the provider in a run
MaxTime == 2        \* timestamps are 1..MaxTime
MaxPrice == 3       \* OHLC tuples are 1..MaxPrice
MaxClock == 2       \* pd.Timestamp.now() is in 1..MaxClock
MaxCalls == 6       \* cap on the calls of fetch_forex_data in one run

None == "<None>"

(***************************************************************************)
(* Text: a Python str is a sequence of one-character strings.              *)
(***************************************************************************)
LowerChar(c) ==
    CASE c = "A" -> "a" [] c = "B" -> "b" [] c = "C" -> "c" [] c = "D" -> "d"
      [] c = "E" -> "e" [] c = "F" -> "f" [] c = "G" -> "g" [] c = "H" -> "h"
      [] c = "I" -> "i" [] c = "J" -> "j" [] c = "K" -> "k" [] c = "L" -> "l"
      [] c = "M" -> "m" [] c = "N" -> "n" [] c = "O" -> "o" [] c = "P" -> "p"
      [] c = "Q" -> "q" [] c = "R" -> "r" [] c = "S" -> "s" [] c = "T" -> "t"
      [] c = "U" -> "u" [] c = "V" -> "v" [] c = "W" -> "w" [] c = "X" -> "x"
      [] c = "Y" -> "y" [] c = "Z" -> "z" [] OTHER -> c

Lower(s) == [i \in 1..Len(s) |-> LowerChar(s[i])]

Contains(needle, hay) ==
    \E i \in 1..(Len(hay) - Len(needle) + 1) :
        SubSeq(hay, i, i + Len(needle) - 1) = needle

(***************************************************************************)
(* Errors.  An error is named by an identifier; ErrorText gives str(e).    *)
(***************************************************************************)
ErrRateLimit == "ErrRateLimit"
ErrCredits == "ErrCredits"
ErrSymbol == "ErrSymbol"
ErrNoKey == "ErrNoKey"

ProviderErrors == {ErrRateLimit, ErrCredits, ErrSymbol}

ErrorText(e) ==
    CASE e = ErrRateLimit ->
           <<"R","a","t","e"," ","L","I","M","I","T"," ",
             "e","x","c","e","e","d","e","d">>
      [] e = ErrCredits ->
           <<"Y","o","u"," ","h","a","v","e"," ","r","u","n"," ","o","u","t",
             " ","o","f"," ","A","P","I"," ","C","r","e","d","i","t","s">>
      [] e = ErrSymbol ->
           <<"s","y","m","b","o","l"," ","n","o","t"," ","f","o","u","n","d">>
      [] e = ErrNoKey ->
           <<"A","P","I"," ","k","e","y"," ","n","o","t"," ","f","o","u","n",
             "d","."," ","S","e","t"," ","T","W","E","L","V","E","_","D","A",
             "T","A","_","A","P","I","_","K","E","Y"," ","e","n","v","i","r",
             "o","n","m","e","n","t"," ","v","a","r","i","a","b","l","e"," ",
             "o","r"," ","c","o","n","f","i","g",".","i","n","i">>
      [] OTHER -> <<>>

\* line 98
is_rate_limit(message) ==
    \/ Contains(<<"r","a","t","e">>, message)
    \/ Contains(<<"c","r","e","d","i","t","s">>, message)
    \/ Contains(<<"l","i","m","i","t">>, message)

IsRateLimitError(e) == is_rate_limit(Lower(ErrorText(e)))

(***************************************************************************)
(* Tables.  A row has its timestamp (the index of the frame) and its       *)
(* columns: the OHLC tuple and, once normalised, symbol and                *)
(* extraction_date (None and 0 while the frame lacks the column).         *)
(***************************************************************************)
Row(t, p) ==
    [datetime |-> t, ohlc |-> p, symbol |-> None, extraction_date |-> 0]

Rows == {Row(t, p) : t \in 1..MaxTime, p \in 1..MaxPrice}

SeqsUpTo(S, n) == UNION {[1..k -> S] : k \in 0..n}

Tables == SeqsUpTo(Rows, MaxRows)

NoneDf == [none |-> TRUE, rows |-> <<>>]
Frame(rows) == [none |-> FALSE, rows |-> rows]

\* df is None or df.empty
NoData(d) == d.none \/ Len(d.rows) = 0

(***************************************************************************)
(* load_api_key                                                            *)
(***************************************************************************)
\* variant: the missing key is returned as None instead of raising
load_api_key_returns_none ==
    IF env_key # None /\ env_key # ""
    THEN [raised |-> FALSE, value |-> env_key, message |-> None]
    ELSE [raised |-> FALSE, value |-> config_key, message |-> None]

load_api_key ==
    IF env_key # None /\ env_key # ""
    THEN [raised |-> FALSE, value |-> env_key, message |-> None]
    ELSE IF config_key # None
         THEN [raised |-> FALSE, value |-> config_key, message |-> None]
         ELSE [raised |-> TRUE, value |-> None, message |-> ErrNoKey]

(***************************************************************************)
(* The provider: its answer to the i-th request; t is the table it has.    *)
(***************************************************************************)
FetchedTables == SeqsUpTo(Rows, MaxFetched)

TablesOffered(i) == IF i <= Len(script) THEN {<<>>} ELSE FetchedTables

ProviderAnswer(i, t) ==
    IF i <= Len(script)
    THEN [ok |-> FALSE, message |-> script[i], table |-> <<>>]
    ELSE [ok |-> TRUE, message |-> None, table |-> t]

(***************************************************************************)
(* fetch_forex_data.  TryFetch is the body of the try block (lines 49-63): *)
(* requested tells whether the request went out to the provider.           *)
(***************************************************************************)
TryFetch(key, answer) ==
    IF key.raised
    THEN [raised |-> TRUE, message |-> key.message, df |-> NoneDf,
          requested |-> FALSE]
    ELSE IF ~answer.ok
         THEN [raised |-> TRUE, message |-> answer.message, df |-> NoneDf,
               requested |-> TRUE]
         ELSE [raised |-> FALSE, message |-> None, df |-> Frame(answer.table),
               requested |-> TRUE]

fetch_forex_data_reraise(key, answer) == TryFetch(key, answer)

\* lines 65-67: every Exception is printed and turned into None
fetch_forex_data(key, answer) ==
    LET r == TryFetch(key, answer)
    IN  IF r.raised
        THEN [raised |-> FALSE, message |-> None, df |-> NoneDf,
              requested |-> r.requested]
        ELSE r

(***************************************************************************)
(* One pass of the loop body of fetch_single_date_with_retry (87-107).     *)
(***************************************************************************)
\* variant: a None result is waited out and fetched again, attempt stays
RetryBody_no_increment(res, att, delay, maxr) ==
    IF ~res.raised /\ ~res.df.none
    THEN [returned |-> TRUE, df |-> res.df, attempt |-> att,
          delay_seconds |-> delay, slept |-> <<>>]
    ELSE [returned |-> FALSE, df |-> NoneDf, attempt |-> att,
          delay_seconds |-> delay * 2, slept |-> <<delay>>]

\* variant: a None result is retried like a rate-limit error
RetryBody_retry_none(res, att, delay, maxr) ==
    IF ~res.raised /\ ~res.df.none
    THEN [returned |-> TRUE, df |-> res.df, attempt |-> att,
          delay_seconds |-> delay, slept |-> <<>>]
    ELSE IF att >= maxr
         THEN [returned |-> TRUE, df |-> NoneDf, attempt |-> att,
               delay_seconds |-> delay, slept |-> <<>>]
         ELSE [returned |-> FALSE, df |-> NoneDf, attempt |-> att + 1,
               delay_seconds |-> delay * 2, slept |-> <<delay>>]

RetryBody(res, att, delay, maxr) ==
    IF ~res.raised
    THEN [returned |-> TRUE, df |-> res.df, attempt |-> att,
          delay_seconds |-> delay, slept |-> <<>>]
    ELSE IF ~IsRateLimitError(res.message) \/ att >= maxr
         THEN [returned |-> TRUE, df |-> NoneDf, attempt |-> att,
               delay_seconds |-> delay, slept |-> <<>>]
         ELSE [returned |-> FALSE, df |-> NoneDf, attempt |-> att + 1,
               delay_seconds |-> delay * 2, slept |-> <<delay>>]

(***************************************************************************)
(* validate_and_prepare_data                                               *)
(***************************************************************************)
Columns(r) == <<r.ohlc, r.symbol, r.extraction_date>>

\* the elements of a finite set of integers in ascending order
RECURSIVE Ordered(_)
Ordered(S) ==
    IF S = {} THEN <<>>
    ELSE LET m == CHOOSE x \in S : \A y \in S : x <= y
         IN  <<m>> \o Ordered(S \ {m})

FirstOfColumns(rows, i) ==
    \A j \in 1..(i - 1) : Columns(rows[j]) # Columns(rows[i])

\* DataFrame.drop_duplicates(): subset=None takes the columns, not the
\* index; keep='first'
drop_duplicates(rows) ==
    LET kept == Ordered({i \in 1..Len(rows) : FirstOfColumns(rows, i)})
    IN  [k \in 1..Len(kept) |-> rows[kept[k]]]

IsMonotonicIncreasing(rows) ==
    \A i \in 1..(Len(rows) - 1) : rows[i].datetime <= rows[i + 1].datetime

IndexPermutations(n) ==
    {p \in [1..n -> 1..n] : \A i, j \in 1..n : i # j => p[i] # p[j]}

\* variant: the frame is not sorted
sort_index_unsorted(rows) == {rows}

\* variant: every frame is ordered by argsort, the ascending ones too
sort_index_argsort(rows) ==
    {s \in {[k \in 1..Len(rows) |-> rows[p[k]]] :
                p \in IndexPermutations(Len(rows))} :
        IsMonotonicIncreasing(s)}

\* DataFrame.sort_index(): a frame whose index is already ascending is
\* returned as it is; otherwise the rows are ordered by argsort of the index
\* with kind='quicksort', which leaves the order of equal timestamps open
sort_index(rows) ==
    IF IsMonotonicIncreasing(rows)
    THEN {rows}
    ELSE {s \in {[k \in 1..Len(rows) |-> rows[p[k]]] :
                    p \in IndexPermutations(Len(rows))} :
             IsMonotonicIncreasing(s)}

AddMetadata(rows, sym, now) ==
    [k \in 1..Len(rows) |->
        [rows[k] EXCEPT !.symbol = sym, !.extraction_date = now]]

\* the set of frames the call can return; now is pd.Timestamp.now()
validate_and_prepare_data(d, sym, now) ==
    IF NoData(d)
    THEN {d}
    ELSE {Frame(AddMetadata(s, sym, now)) :
             s \in sort_index(drop_duplicates(d.rows))}

(***************************************************************************)
(* save_to_gcs_parquet.  fail is the statement that raises.                *)
(***************************************************************************)
Yesterday == "2026-11-05"
Dates == {None, "2026-01-15", "15/01/2026"}
PathDates == Dates \cup {"2026-1-5", "2024-02-29", "1999-12-31", "2026-02-30"}

Symbols == {"EUR/USD", "GBP/JPY"}
PathSymbols == Symbols \cup {"btc/usd", "XAUUSD"}

\* the characters of a symbol and of a date given on the command line
SymbolText(sym) ==
    CASE sym = "EUR/USD" -> <<"E","U","R","/","U","S","D">>
      [] sym = "GBP/JPY" -> <<"G","B","P","/","J","P","Y">>
      [] sym = "btc/usd" -> <<"b","t","c","/","u","s","d">>
      [] sym = "XAUUSD" -> <<"X","A","U","U","S","D">>
      [] OTHER -> <<>>

DateText(d) ==
    CASE d = "2026-11-05" -> <<"2","0","2","6","-","1","1","-","0","5">>
      [] d = "2026-01-15" -> <<"2","0","2","6","-","0","1","-","1","5">>
      [] d = "15/01/2026" -> <<"1","5","/","0","1","/","2","0","2","6">>
      [] d = "2026-1-5" -> <<"2","0","2","6","-","1","-","5">>
      [] d = "2024-02-29" -> <<"2","0","2","4","-","0","2","-","2","9">>
      [] d = "1999-12-31" -> <<"1","9","9","9","-","1","2","-","3","1">>
      [] d = "2026-02-30" -> <<"2","0","2","6","-","0","2","-","3","0">>
      [] OTHER -> <<>>

DigitChars == <<"0", "1", "2", "3", "4", "5", "6", "7", "8", "9">>

IsDigit(c) == \E v \in 1..10 : DigitChars[v] = c

DigitValue(c) == (CHOOSE v \in 1..10 : DigitChars[v] = c) - 1

AllDigits(s) == \A i \in 1..Len(s) : IsDigit(s[i])

\* int(s) of a string of digits
RECURSIVE IntOf(_)
IntOf(s) ==
    IF s = <<>> THEN 0
    ELSE 10 * IntOf(SubSeq(s, 1, Len(s) - 1)) + DigitValue(s[Len(s)])

\* f"{n}"
RECURSIVE Str(_)
Str(n) ==
    IF n < 10 THEN <<DigitChars[n + 1]>>
    ELSE Str(n \div 10) \o <<DigitChars[(n % 10) + 1]>>

\* f"{n:02d}"
Pad2(n) == IF n < 10 THEN <<"0">> \o Str(n) ELSE Str(n)

IsLeap(y) == (y % 4 = 0 /\ y % 100 # 0) \/ y % 400 = 0

DaysInMonth(y, m) ==
    IF m = 2 THEN (IF IsLeap(y) THEN 29 ELSE 28)
    ELSE IF m \in {4, 6, 9, 11} THEN 30 ELSE 31

NoDate == [ok |-> FALSE, year |-> 0, month |-> 0, day |-> 0]

\* datetime.strptime(text, "%Y-%m-%d"): four digits, one or two digits, one
\* or two digits, separated by '-', naming a day of the calendar
strptime(text) ==
    LET dashes == {i \in 1..Len(text) : text[i] = "-"}
    IN  IF Cardinality(dashes) # 2 THEN NoDate
        ELSE LET i1 == CHOOSE i \in dashes : \A j \in dashes : i <= j
                 i2 == CHOOSE i \in dashes : \A j \in dashes : j <= i
                 y == SubSeq(text, 1, i1 - 1)
                 m == SubSeq(text, i1 + 1, i2 - 1)
                 d == SubSeq(text, i2 + 1, Len(text))
             IN  IF /\ AllDigits(y) /\ AllDigits(m) /\ AllDigits(d)
                    /\ Len(y) = 4 /\ Len(m) \in 1..2 /\ Len(d) \in 1..2
                    /\ IntOf(y) >= 1
                    /\ IntOf(m) \in 1..12
                    /\ IntOf(d) \in 1..DaysInMonth(IntOf(y), IntOf(m))
                 THEN [ok |-> TRUE, year |-> IntOf(y), month |-> IntOf(m),
                       day |-> IntOf(d)]
                 ELSE NoDate

\* line 159 does not raise
ParsesAsDate(date_str) == strptime(DateText(date_str)).ok

\* str.replace(a, b) for single characters
Replace(s, a, b) == [i \in 1..Len(s) |-> IF s[i] = a THEN b ELSE s[i]]

NoPath == <<>>

\* variant: month and day are formatted without :02d
GcsPath_unpadded(sym, date_str) ==
    LET date_obj == strptime(DateText(date_str))
        year == Str(date_obj.year)
        month == Str(date_obj.month)
        day == Str(date_obj.day)
        symbol_clean == Lower(Replace(SymbolText(sym), "/", "_"))
    IN  symbol_clean \o <<"/","y","e","a","r","=">> \o year \o <<"/","m","o","n","t","h","=">> \o month
          \o <<"/","d","a","t","a","_">> \o year \o <<"_">> \o month \o <<"_">> \o day
          \o <<".","p","a","r","q","u","e","t">>

\* lines 159-168
GcsPath(sym, date_str) ==
    LET date_obj == strptime(DateText(date_str))
        year == Str(date_obj.year)
        month == Pad2(date_obj.month)
        day == Pad2(date_obj.day)
        symbol_clean == Lower(Replace(SymbolText(sym), "/", "_"))
    IN  symbol_clean \o <<"/","y","e","a","r","=">> \o year \o <<"/","m","o","n","t","h","=">> \o month
          \o <<"/","d","a","t","a","_">> \o year \o <<"_">> \o month \o <<"_">> \o day
          \o <<".","p","a","r","q","u","e","t">>

SaveFailures(date_str) ==
    IF ParsesAsDate(date_str)
    THEN {"none", "to_parquet", "to_parquet_partial", "client", "upload",
          "remove"}
    ELSE {"strptime"}

\* variant: the except branch returns the path it had computed
save_to_gcs_parquet_path_on_error(sym, date_str, fail) ==
    LET path == GcsPath(sym, date_str)
    IN  CASE fail \in {"strptime", "to_parquet"} ->
               [gcs_path |-> NoPath, uploaded |-> <<>>, temp_file |-> FALSE]
          [] fail \in {"to_parquet_partial", "client", "upload"} ->
               [gcs_path |-> path, uploaded |-> <<>>, temp_file |-> TRUE]
          [] fail = "remove" ->
               [gcs_path |-> path, uploaded |-> <<path>>,
                temp_file |-> TRUE]
          [] OTHER ->
               [gcs_path |-> path, uploaded |-> <<path>>,
                temp_file |-> FALSE]

\* variant: the temporary file is removed on the failure path too
save_to_gcs_parquet_cleanup_always(sym, date_str, fail) ==
    LET path == GcsPath(sym, date_str)
    IN  CASE fail \in {"strptime", "to_parquet", "to_parquet_partial",
                       "client", "upload"} ->
               [gcs_path |-> NoPath, uploaded |-> <<>>, temp_file |-> FALSE]
          [] fail = "remove" ->
               [gcs_path |-> NoPath, uploaded |-> <<path>>,
                temp_file |-> TRUE]
          [] OTHER ->
               [gcs_path |-> path, uploaded |-> <<path>>,
                temp_file |-> FALSE]

save_to_gcs_parquet(sym, date_str, fail) ==
    LET path == GcsPath(sym, date_str)
    IN  CASE fail \in {"strptime", "to_parquet"} ->
               [gcs_path |-> NoPath, uploaded |-> <<>>, temp_file |-> FALSE]
          [] fail \in {"to_parquet_partial", "client", "upload"} ->
               [gcs_path |-> NoPath, uploaded |-> <<>>, temp_file |-> TRUE]
          [] fail = "remove" ->
               [gcs_path |-> NoPath, uploaded |-> <<path>>,
                temp_file |-> TRUE]
          [] OTHER ->
               [gcs_path |-> path, uploaded |-> <<path>>,
                temp_file |-> FALSE]

(***************************************************************************)
(* The invocation                                                          *)
(***************************************************************************)
Scripts == SeqsUpTo(ProviderErrors, MaxRetries + 1)

Init ==
    /\ pc = "start"
    /\ bucket_arg \in {None, "", "my-bucket"}
    /\ env_bucket \in {None, "env-bucket"}
    /\ env_key \in {None, "env-key"}
    /\ config_key \in {None, "config-key"}
    /\ symbol \in Symbols
    /\ date \in Dates
    /\ max_retries \in -1..MaxRetries
    /\ script \in Scripts
    /\ bucket_name = None
    /\ attempt = 0
    /\ delay_seconds = 0
    /\ fetchCalls = 0
    /\ requests = <<>>
    /\ fetched = [raised |-> FALSE, message |-> None, df |-> NoneDf,
                  requested |-> FALSE]
    /\ sleeps = <<>>
    /\ raw = NoneDf
    /\ df = NoneDf
    /\ trace = <<>>
    /\ blobs = <<>>
    /\ temp_file = FALSE
    /\ gcs_path = NoPath
    /\ failed_at = None
    /\ again = NoneDf
    /\ success = None
    /\ exit_code = -1

date_str == IF date = None THEN Yesterday ELSE date

\* lines 229-233
ResolveBucket ==
    IF bucket_arg = None
    THEN IF env_bucket = None \/ env_bucket = "" THEN None ELSE env_bucket
    ELSE bucket_arg

\* run_daily_extraction, lines 222-243: up to the call of
\* fetch_single_date_with_retry, whose lines 83-84 are included
Start ==
    /\ pc = "start"
    /\ IF ResolveBucket = None
       THEN /\ pc' = "return"
            /\ success' = "False"
            /\ UNCHANGED <<bucket_name, attempt, delay_seconds, trace>>
       ELSE /\ pc' = "fetch"
            /\ bucket_name' = ResolveBucket
            /\ attempt' = 0
            /\ delay_seconds' = 10
            /\ trace' = Append(trace, "extract")
            /\ UNCHANGED success
    /\ UNCHANGED <<inputs, fetchCalls, requests, fetched, sleeps, raw, df,
                   blobs, temp_file, gcs_path, exit_code>>
    /\ UNCHANGED <<failed_at, again>>

\* fetch_single_date_with_retry, lines 86-107: one pass of the while loop
Attempt ==
    /\ pc = "fetch"
    /\ attempt <= max_retries
    /\ fetchCalls < MaxCalls
    /\ \E t \in TablesOffered(Len(requests) + 1) :
         LET answer == ProviderAnswer(Len(requests) + 1, t)
             res == fetch_forex_data(load_api_key, answer)
             body == RetryBody(res, attempt, delay_seconds, max_retries)
         IN  /\ fetchCalls' = fetchCalls + 1
             /\ requests' = IF res.requested THEN Append(requests, answer)
                            ELSE requests
             /\ fetched' = res
             /\ sleeps' = sleeps \o body.slept
             /\ attempt' = body.attempt
             /\ delay_seconds' = body.delay_seconds
             /\ IF body.returned
                THEN pc' = "check" /\ raw' = body.df /\ df' = body.df
                ELSE UNCHANGED <<pc, raw, df>>
    /\ UNCHANGED <<inputs, bucket_name, trace, blobs, temp_file, gcs_path,
                   success, exit_code>>
    /\ UNCHANGED <<failed_at, again>>

\* fetch_single_date_with_retry, lines 86 and 109: the loop ends
LoopExit ==
    /\ pc = "fetch"
    /\ ~(attempt <= max_retries)
    /\ pc' = "check"
    /\ raw' = NoneDf
    /\ df' = NoneDf
    /\ UNCHANGED <<inputs, bucket_name, attempt, delay_seconds, fetchCalls,
                   requests, fetched, sleeps, trace, blobs, temp_file,
                   gcs_path, success, exit_code>>
    /\ UNCHANGED <<failed_at, again>>

\* variant: only None is taken as no data
HasNoData_none_only(d) == d.none

\* line 245
HasNoData(d) == NoData(d)

\* run_daily_extraction, lines 245-247
CheckData ==
    /\ pc = "check"
    /\ IF HasNoData(df)
       THEN pc' = "return" /\ success' = "False"
       ELSE pc' = "transform" /\ UNCHANGED success
    /\ UNCHANGED <<inputs, bucket_name, attempt, delay_seconds, fetchCalls,
                   requests, fetched, sleeps, raw, df, trace, blobs,
                   temp_file, gcs_path, exit_code>>
    /\ UNCHANGED <<failed_at, again>>

\* run_daily_extraction, lines 249-252
Transform ==
    /\ pc = "transform"
    /\ \E now \in 1..MaxClock :
         df' \in validate_and_prepare_data(df, symbol, now)
    /\ trace' = Append(trace, "normalize")
    /\ pc' = "load"
    /\ UNCHANGED <<inputs, bucket_name, attempt, delay_seconds, fetchCalls,
                   requests, fetched, sleeps, raw, blobs, temp_file,
                   gcs_path, success, exit_code>>
    /\ UNCHANGED <<failed_at, again>>

\* variant: the run reports success whatever the writer returned
Succeeded_always(path) == "True"

\* lines 258-267
Succeeded(path) == IF path # NoPath THEN "True" ELSE "False"

\* run_daily_extraction, lines 254-267
Load ==
    /\ pc = "load"
    /\ \E fail \in SaveFailures(date_str) :
         LET saved == save_to_gcs_parquet(symbol, date_str, fail)
         IN  /\ gcs_path' = saved.gcs_path
             /\ blobs' = blobs \o saved.uploaded
             /\ temp_file' = saved.temp_file
             /\ failed_at' = fail
             /\ success' = Succeeded(saved.gcs_path)
    /\ trace' = Append(trace, "save")
    /\ pc' = "return"
    /\ UNCHANGED <<inputs, bucket_name, attempt, delay_seconds, fetchCalls,
                   requests, fetched, sleeps, raw, df, exit_code>>
    /\ UNCHANGED again

\* line 290
ExitStatus(ok) == IF ok = "True" THEN 0 ELSE 1

\* main, lines 282-290
Exit ==
    /\ pc = "return"
    /\ exit_code' = ExitStatus(success)
    /\ pc' = "exited"
    /\ UNCHANGED <<inputs, bucket_name, attempt, delay_seconds, fetchCalls,
                   requests, fetched, sleeps, raw, df, trace, blobs,
                   temp_file, gcs_path, success>>
    /\ UNCHANGED <<failed_at, again>>

Next == Start \/ Attempt \/ LoopExit \/ CheckData \/ Transform \/ Load \/ Exit

Spec == Init /\ [][Next]_vars

(***************************************************************************)
(* The normaliser alone: the run has fetched the frame t at its first      *)
(* request, with the default max_retries, and is about to transform it.    *)
(***************************************************************************)
DefaultMaxRetries == 5

InitNormalize ==
    \E t \in Tables \ {<<>>} :
        /\ pc = "transform"
        /\ bucket_arg = "my-bucket"
        /\ env_bucket = None
        /\ env_key = "env-key"
        /\ config_key = None
        /\ symbol \in Symbols
        /\ date = None
        /\ max_retries = DefaultMaxRetries
        /\ script = <<>>
        /\ bucket_name = "my-bucket"
        /\ attempt = 0
        /\ delay_seconds = 10
        /\ fetchCalls = 1
        /\ requests = <<[ok |-> TRUE, message |-> None, table |-> t]>>
        /\ fetched = [raised |-> FALSE, message |-> None, df |-> Frame(t),
                      requested |-> TRUE]
        /\ sleeps = <<>>
        /\ raw = Frame(t)
        /\ df = Frame(t)
        /\ trace = <<"extract">>
        /\ blobs = <<>>
        /\ temp_file = FALSE
        /\ gcs_path = NoPath
        /\ failed_at = None
        /\ again = NoneDf
        /\ success = None
        /\ exit_code = -1

\* validate_and_prepare_data (lines 112-141) applied to the frame it returned
Renormalize ==
    /\ pc = "load"
    /\ \E now \in 1..MaxClock :
         again' \in validate_and_prepare_data(df, symbol, now)
    /\ pc' = "renormalized"
    /\ UNCHANGED <<inputs, bucket_name, attempt, delay_seconds, fetchCalls,
                   requests, fetched, sleeps, raw, df, trace, blobs,
                   temp_file, gcs_path, failed_at, success, exit_code>>

NextNormalize == Transform \/ Renormalize

SpecNormalize == InitNormalize /\ [][NextNormalize]_vars

(***************************************************************************)
(* fetch_single_date_with_retry alone: the run has resolved its bucket and *)
(* calls the function, for every key setting, max_retries and script.  The *)
(* program is one thread that runs on until it returns, hence the weak     *)
(* fairness of its steps.                                                  *)
(***************************************************************************)
InitFetch ==
    /\ pc = "fetch"
    /\ bucket_arg = "my-bucket"
    /\ env_bucket = None
    /\ env_key \in {None, "env-key"}
    /\ config_key \in {None, "config-key"}
    /\ symbol = "EUR/USD"
    /\ date = None
    /\ max_retries \in -1..MaxRetries
    /\ script \in Scripts
    /\ bucket_name = "my-bucket"
    /\ attempt = 0
    /\ delay_seconds = 10
    /\ fetchCalls = 0
    /\ requests = <<>>
    /\ fetched = [raised |-> FALSE, message |-> None, df |-> NoneDf,
                  requested |-> FALSE]
    /\ sleeps = <<>>
    /\ raw = NoneDf
    /\ df = NoneDf
    /\ trace = <<"extract">>
    /\ blobs = <<>>
    /\ temp_file = FALSE
    /\ gcs_path = NoPath
    /\ failed_at = None
    /\ again = NoneDf
    /\ success = None
    /\ exit_code = -1

NextFetch == Attempt \/ LoopExit

SpecFetch == InitFetch /\ [][NextFetch]_vars /\ WF_vars(NextFetch)

(***************************************************************************)
(* The storage writer alone: the run holds a normalised frame and is about *)
(* to upload it, for every symbol and date of PathSymbols and PathDates.   *)
(***************************************************************************)
InitSave ==
    /\ pc = "load"
    /\ bucket_arg = "my-bucket"
    /\ env_bucket = None
    /\ env_key = "env-key"
    /\ config_key = None
    /\ symbol \in PathSymbols
    /\ date \in PathDates
    /\ max_retries = DefaultMaxRetries
    /\ script = <<>>
    /\ bucket_name = "my-bucket"
    /\ attempt = 0
    /\ delay_seconds = 10
    /\ fetchCalls = 1
    /\ requests = <<[ok |-> TRUE, message |-> None,
                     table |-> <<Row(1, 1)>>]>>
    /\ fetched = [raised |-> FALSE, message |-> None,
                  df |-> Frame(<<Row(1, 1)>>), requested |-> TRUE]
    /\ sleeps = <<>>
    /\ raw = Frame(<<Row(1, 1)>>)
    /\ \E now \in 1..MaxClock :
         df = Frame(AddMetadata(<<Row(1, 1)>>, symbol, now))
    /\ trace = <<"extract", "normalize">>
    /\ blobs = <<>>
    /\ temp_file = FALSE
    /\ gcs_path = NoPath
    /\ failed_at = None
    /\ again = NoneDf
    /\ success = None
    /\ exit_code = -1

NextSave == Load \/ Exit

SpecSave == InitSave /\ [][NextSave]_vars

(***************************************************************************)
(* Properties                                                              *)
(***************************************************************************)
KeyMissing == (env_key = None \/ env_key = "") /\ config_key = None
BucketMissing == bucket_arg = None /\ (env_bucket = None \/ env_bucket = "")

\* fetch_single_date_with_retry was called and has returned
FetchReturned ==
    /\ Len(trace) >= 1
    /\ pc \in {"check", "transform", "load", "return", "exited"}

Normalized ==
    /\ Len(trace) >= 2
    /\ pc \in {"load", "renormalized", "return", "exited"}

RECURSIVE Pow2(_)
Pow2(n) == IF n <= 0 THEN 1 ELSE 2 * Pow2(n - 1)

\* 10, 20, 40, ..., 10 * 2^(n-1)
BackoffDelays(n) == [k \in 1..n |-> 10 * Pow2(k - 1)]

\* the first n answers of the provider are rate-limit-classified errors
RateLimitedFor(n) ==
    /\ Len(script) >= n
    /\ \A i \in 1..n : IsRateLimitError(script[i])

\* C1: when the provider fails with rate-limit errors on its first N
\* requests (N <= max_retries) and succeeds on request N+1, the controller
\* makes exactly N+1 fetch attempts, sleeps 10, 20, ..., 10*2^(N-1) seconds
\* in that order and returns the table of the successful request.
C1_RetriesUntilSuccess ==
    (/\ FetchReturned
     /\ ~KeyMissing
     /\ RateLimitedFor(Len(script))
     /\ Len(script) <= max_retries)
    => /\ fetchCalls = Len(script) + 1
       /\ sleeps = BackoffDelays(Len(script))
       /\ Len(requests) = Len(script) + 1
       /\ ~raw.none
       /\ raw = Frame(requests[Len(requests)].table)

\* C2: when more than max_retries consecutive requests fail with rate-limit
\* errors, the controller makes exactly max_retries+1 fetch attempts,
\* sleeping 10, 20, ... between them, and returns None.
C2_ExhaustsRetries ==
    (/\ FetchReturned
     /\ ~KeyMissing
     /\ max_retries >= 0
     /\ RateLimitedFor(max_retries + 1))
    => /\ fetchCalls = max_retries + 1
       /\ sleeps = BackoffDelays(max_retries)
       /\ raw.none

\* C3: for max_retries >= 0, one call of fetch_single_date_with_retry never
\* makes more than max_retries + 1 fetch attempts, whatever the provider
\* answers.
C3_AttemptsBounded ==
    max_retries >= 0 => fetchCalls <= max_retries + 1

C3_Witness ==
    /\ FetchReturned
    /\ max_retries = 0
    /\ fetchCalls = 1
    /\ Len(requests) = 1
    /\ ~requests[1].ok

\* the first request was answered with an error that is not rate-limit-
\* classified
FirstRequestFatal ==
    /\ Len(requests) >= 1
    /\ ~requests[1].ok
    /\ ~IsRateLimitError(requests[1].message)

\* C4: when the first request fails with an error whose message contains
\* none of 'rate', 'credits', 'limit', the controller returns None at once:
\* no sleep and no second fetch attempt.
C4_FatalErrorStops ==
    FirstRequestFatal
    => /\ FetchReturned
       /\ raw.none
       /\ sleeps = <<>>
       /\ fetchCalls = 1
       /\ Len(requests) = 1

C4_Witness ==
    /\ FirstRequestFatal
    /\ pc = "check"
    /\ max_retries >= 1

\* C5: fetch_forex_data gives its caller the table of its request or, when
\* the request raises, fails to its caller with an error carrying the
\* provider's message.
C5_ErrorReachesCaller ==
    (fetched.requested /\ Len(requests) >= 1)
    => LET answer == requests[Len(requests)]
       IN  IF answer.ok
           THEN ~fetched.raised /\ fetched.df = Frame(answer.table)
           ELSE fetched.raised /\ fetched.message = answer.message

\* C6: when the extraction yields None or an empty table, the run reports
\* failure and neither the normaliser nor the storage writer is invoked.
C6_NoDataNoStorage ==
    (FetchReturned /\ NoData(raw))
    => /\ trace = <<"extract">>
       /\ blobs = <<>>
       /\ pc \in {"check", "return", "exited"}
       /\ pc \in {"return", "exited"} => success = "False"

C6_Witness ==
    /\ pc = "exited"
    /\ ~raw.none
    /\ Len(raw.rows) = 0
    /\ success = "False"

\* C7: the process exits with 0 exactly when the fetch returned a non-empty
\* table and the storage writer returned a path, and with 1 otherwise.
C7_ExitStatus ==
    pc = "exited"
    => /\ exit_code \in {0, 1}
       /\ exit_code = 0 <=> (FetchReturned /\ ~NoData(raw)
                             /\ gcs_path # NoPath)

C7_Witness ==
    /\ pc = "exited"
    /\ exit_code = 1
    /\ ~NoData(raw)
    /\ trace = <<"extract", "normalize", "save">>

IsPrefix(s, t) == Len(s) <= Len(t) /\ s = SubSeq(t, 1, Len(s))

\* C8: the object store is written at most once per run and exactly once
\* in a run that reports success; normaliser and writer run at most once,
\* after a fetch that returned a non-empty table, in the order fetch,
\* normalise, upload.
C8_SingleUpload ==
    /\ Len(blobs) <= 1
    /\ success = "True" => Len(blobs) = 1
    /\ IsPrefix(trace, <<"extract", "normalize", "save">>)
    /\ Len(trace) >= 2 => (fetchCalls >= 1 /\ ~NoData(raw))
    /\ blobs # <<>> => trace = <<"extract", "normalize", "save">>

C8_Witness ==
    /\ pc = "exited"
    /\ success = "True"
    /\ Len(blobs) = 1
    /\ trace = <<"extract", "normalize", "save">>

\* C9: when the API key or the bucket identifier is missing, the run fails
\* (False, exit status 1) and no request is sent to the provider and no
\* upload is made.
C9_ConfigErrorNoNetwork ==
    (KeyMissing \/ BucketMissing)
    => /\ requests = <<>>
       /\ blobs = <<>>
       /\ pc \in {"return", "exited"} => success = "False"
       /\ pc = "exited" => exit_code = 1

C9_Witness ==
    /\ pc = "exited"
    /\ KeyMissing
    /\ ~BucketMissing
    /\ fetchCalls = 1
    /\ exit_code = 1

\* C10: validate_and_prepare_data removes only exact duplicates: every
\* (timestamp, OHLC) tuple of a non-empty input appears in the output, so
\* rows with different timestamps and equal OHLC values are both kept.
C10_OnlyExactDuplicatesRemoved ==
    Normalized
    => \A i \in 1..Len(raw.rows) :
         \E j \in 1..Len(df.rows) :
            /\ df.rows[j].datetime = raw.rows[i].datetime
            /\ df.rows[j].ohlc = raw.rows[i].ohlc

\* the rows of a frame with the timestamp and the OHLC values of r
Copies(rows, r) ==
    {k \in 1..Len(rows) :
        rows[k].datetime = r.datetime /\ rows[k].ohlc = r.ohlc}

\* C11: when the input has two or more rows with the same timestamp and
\* the same OHLC values, the output of validate_and_prepare_data has
\* exactly one row with that timestamp and those values.
C11_OneCopyOfDuplicates ==
    Normalized
    => \A i \in 1..Len(raw.rows) :
         Cardinality(Copies(raw.rows, raw.rows[i])) >= 2
         => Cardinality(Copies(df.rows, raw.rows[i])) = 1

\* C12: for a non-empty input in any row order, the rows returned by
\* validate_and_prepare_data ascend by timestamp and each carries the given
\* symbol and a non-null extraction_date.
C12_SortedWithMetadata ==
    Normalized
    => /\ Len(df.rows) >= 1
       /\ IsMonotonicIncreasing(df.rows)
       /\ \A k \in 1..Len(df.rows) :
            /\ df.rows[k].symbol = symbol
            /\ df.rows[k].extraction_date \in 1..MaxClock

C12_Witness ==
    /\ Normalized
    /\ ~IsMonotonicIncreasing(raw.rows)
    /\ Len(df.rows) >= 2
    /\ df.rows[1].datetime < df.rows[2].datetime

\* C13: validate_and_prepare_data applied to its own output, with the same
\* symbol, removes no row and keeps the rows in the same order.
C13_NormalizeIdempotent ==
    pc = "renormalized"
    => /\ ~again.none
       /\ Len(again.rows) = Len(df.rows)
       /\ \A k \in 1..Len(df.rows) :
            /\ again.rows[k].datetime = df.rows[k].datetime
            /\ again.rows[k].ohlc = df.rows[k].ohlc
            /\ again.rows[k].symbol = df.rows[k].symbol

C13_Witness ==
    /\ pc = "renormalized"
    /\ Len(raw.rows) > Len(df.rows)
    /\ Len(again.rows) >= 2
    /\ again.rows[1].datetime = again.rows[2].datetime
    /\ again.rows[1].extraction_date # df.rows[1].extraction_date

\* the directory of a symbol: '/' replaced by '_', lowercased
SymbolDir(sym) ==
    CASE sym = "EUR/USD" -> <<"e","u","r","_","u","s","d">>
      [] sym = "GBP/JPY" -> <<"g","b","p","_","j","p","y">>
      [] sym = "btc/usd" -> <<"b","t","c","_","u","s","d">>
      [] sym = "XAUUSD" -> <<"x","a","u","u","s","d">>
      [] OTHER -> <<>>

\* the text of a field of a date, with a leading zero when it has one digit
TwoDigits(field) == IF Len(field) = 1 THEN <<"0">> \o field ELSE field

\* <symbol dir>/year=<YYYY>/month=<MM>/data_<YYYY>_<MM>_<DD>.parquet, from
\* the text of the date: YYYY before the first '-', MM between the two, DD
\* after the second
PathOf(sym, text) ==
    LET i1 == CHOOSE i \in 1..Len(text) :
                 text[i] = "-" /\ \A j \in 1..(i - 1) : text[j] # "-"
        i2 == CHOOSE i \in (i1 + 1)..Len(text) : text[i] = "-"
        yyyy == SubSeq(text, 1, i1 - 1)
        mm == TwoDigits(SubSeq(text, i1 + 1, i2 - 1))
        dd == TwoDigits(SubSeq(text, i2 + 1, Len(text)))
    IN  SymbolDir(sym) \o <<"/","y","e","a","r","=">> \o yyyy \o <<"/","m","o","n","t","h","=">> \o mm
          \o <<"/","d","a","t","a","_">> \o yyyy \o <<"_">> \o mm \o <<"_">> \o dd
          \o <<".","p","a","r","q","u","e","t">>

ExamplePath ==
    <<"e","u","r","_","u","s","d","/","y","e","a","r","=","2","0",
      "2","6","/","m","o","n","t","h","=","0","1","/","d","a","t",
      "a","_","2","0","2","6","_","0","1","_","1","5",".","p","a",
      "r","q","u","e","t">>

\* C14: the storage path depends on the symbol and the date only and is
\* <symbol with '/' replaced by '_' and lowercased>/year=<YYYY>/month=<MM>/
\* data_<YYYY>_<MM>_<DD>.parquet with MM and DD zero-padded, whenever it is
\* computed; EUR/USD and 2026-01-15 give
\* eur_usd/year=2026/month=01/data_2026_01_15.parquet.
C14_PathDeterministic ==
    /\ gcs_path # NoPath => gcs_path = PathOf(symbol, DateText(date_str))
    /\ \A k \in 1..Len(blobs) :
         blobs[k] = PathOf(symbol, DateText(date_str))
    /\ (gcs_path # NoPath /\ symbol = "EUR/USD" /\ date = "2026-01-15")
       => gcs_path = ExamplePath

C14_Witness ==
    /\ pc = "exited"
    /\ symbol = "EUR/USD"
    /\ date = "2026-01-15"
    /\ gcs_path = ExamplePath
    /\ blobs = <<ExamplePath>>

\* C15: save_to_gcs_parquet removes the temporary file on the success path
\* only: a returned path means the file is gone, and when the file was
\* written and the upload fails the result is None and the file remains.
C15_CleanupOnlyOnSuccess ==
    /\ gcs_path # NoPath => (~temp_file /\ failed_at = "none")
    /\ failed_at \in {"client", "upload"}
       => (gcs_path = NoPath /\ temp_file /\ blobs = <<>>)
    /\ (failed_at \in {"none", "to_parquet_partial", "client", "upload",
                       "remove"} /\ ~temp_file)
       => gcs_path # NoPath

C15_Witness ==
    /\ pc = "exited"
    /\ failed_at = "upload"
    /\ temp_file
    /\ gcs_path = NoPath

\* C16: every call of fetch_single_date_with_retry returns, for every
\* max_retries (0 and negative values included) and every sequence of
\* answers of the provider.
C16_FetchTerminates == <>(pc = "check")

C16_Witness ==
    /\ pc = "check"
    /\ max_retries < 0
    /\ fetchCalls = 0
    /\ sleeps = <<>>
    /\ raw.none

\* C17: when run_daily_extraction reports failure, no blob was uploaded in
\* that run, also when a step of save_to_gcs_parquet fails after the upload.
C17_FailureLeavesNoBlob ==
    success = "False" => blobs = <<>>

====
